---- MODULE Spec2Model ----
(***************************************************************************)
(* The event loop of tuicr (src/src/main.rs): the interrupt-key override,  *)
(* the pending leader keys (z, d, ;), the key-to-action mapping, the mode  *)
(* dispatch and the action arms.  One action of the model is one           *)
(* iteration of `loop { ... }`: render, the pending Ctrl+C expiry check,   *)
(* poll, the handling of the event read (if any), and the should_quit      *)
(* check at the bottom, which a `continue` skips.                          *)
(*                                                                         *)
(* The modules app, input and handler are not part of the source at hand:  *)
(* the App methods and map_key_to_action are written from the              *)
(* specification (spec.md, sections 4.3 to 4.5 and 6).                     *)
(***************************************************************************)
EXTENDS Integers, Sequences, FiniteSets, TLC

\* ------------------------------------------------------------------ bounds

\* Largest number of files a (re)loaded diff holds.
MaxFiles == 2
\* Longest comment draft the environment types.
MaxBuf == 1
MaxDraft == 3

\* `const CTRL_C_EXIT_TIMEOUT: Duration = Duration::from_secs(2)`, in seconds.
CTRL_C_EXIT_TIMEOUT == 2

\* ------------------------------------------------------------------ values

\* Option<T>: None, or Some(x)
None == <<>>

Some(x) == <<x>>

unwrap(o) == o[1]

\* No file under the cursor (paths are 1, 2, ...): the None of an Option<path>.
NoPath == 0

\* A reload that failed.
ReloadErr == 0 - 1

\* app::InputMode
InputMode ==
  {"Normal", "Command", "Search", "Comment", "Confirm", "CommitSelect",
   "VisualSelect", "Help"}

\* app::FocusedPanel
FocusedPanel == {"FileList", "Diff"}

\* The command lines the user types in Command mode; the environment types
\* any prefix of one of them, and may delete back.
CommandTexts == {<<"q">>, <<"w", "q">>, <<"x", " ">>, <<"e">>, <<"b">>}

IsPrefix(s, t) == Len(s) <= Len(t) /\ SubSeq(t, 1, Len(s)) = s

CommandPrefix(s) == \E t \in CommandTexts : IsPrefix(s, t)

\* Characters typed into a comment draft.
CommentChars == {"b", " "}

\* A character whose UTF-8 encoding takes two bytes (U+00E9), as the terminal
\* delivers it in a KeyCode::Char.
WideChars == {"e_acute"}

\* char::len_utf8 on the characters of the model
len_utf8(c) == IF c \in WideChars THEN 2 ELSE 1

CommandChars == {"q", "w", "x", "e", "b", " "}

\* crossterm key events of kind Press: characters and named keys.
CharKeys ==
  CommandChars \cup CommentChars \cup
  {"z", "d", ";", "h", "l", ":", "c", "y", "n", "?", "/", "v", "o", "}", "{", "g", "G"}

\* The further letters of the command vocabulary; r is also the key that
\* toggles the reviewed flag in Normal mode.
CommandLetters == {"u", "i", "t", "r", "a", "p", "s", "l", "o", "c", "g"}

\* The command lines typed in full in the runs of SpecCommands: every
\* spelling of the vocabulary, with and without surrounding whitespace, and an
\* unrecognized one.
CommandLines ==
  { <<"q">>, <<" ", "q", "u", "i", "t", " ">>,
    <<"w">>, <<"w", "r", "i", "t", "e">>,
    <<"w", "q">>, <<"x">>,
    <<"e">>, <<"r", "e", "l", "o", "a", "d">>,
    <<"c", "l", "i", "p">>, <<"e", "x", "p", "o", "r", "t">>,
    <<"b", "o", "g", "u", "s">> }

NamedKeys ==
  {"CtrlC", "Enter", "Esc", "Backspace", "Left", "Right", "CtrlW", "CtrlU", "Tab"}

Keys == CharKeys \cup NamedKeys

\* char::is_whitespace on the characters of the model
is_whitespace(c) == c = " "

\* What the collaborators outside the loop answer within one iteration:
\* save_session, export_to_clipboard, App::reload_diff_files and the commit
\* listing each succeed or fail; a reload that succeeds reports a file count.
Envs ==
  [save_ok : BOOLEAN, export_ok : BOOLEAN, reload : {ReloadErr} \cup (0 .. MaxFiles),
   commits_ok : BOOLEAN]

DefaultEnv == [save_ok |-> TRUE, export_ok |-> TRUE, reload |-> ReloadErr, commits_ok |-> TRUE]

\* ------------------------------------------------------------------ state

VARIABLES
  app,               \* the App aggregate
  pending_z,         \* `let mut pending_z = false`
  pending_d,         \* `let mut pending_d = false`
  pending_semicolon, \* `let mut pending_semicolon = false`
  pending_ctrl_c,    \* `let mut pending_ctrl_c: Option<Instant> = None`
  running,           \* FALSE once the loop has hit `break` or has panicked
  panicked,          \* the thread has panicked inside the loop
  read_after_quit,   \* history: an event was read with should_quit already set
  last_press,        \* history: the last key press (SpecKeys only)
  since_ctrl_c       \* history: the time since it, if it was Ctrl+C (SpecKeys only)

vars ==
  <<app, pending_z, pending_d, pending_semicolon, pending_ctrl_c, running, panicked,
    read_after_quit, last_press, since_ctrl_c>>

\* An Instant is kept as the time elapsed since it was taken, in seconds and
\* saturating at CTRL_C_EXIT_TIMEOUT: the loop only ever compares
\* first_press.elapsed() with that constant.
\* Instant::now()
Instant_now == 0

elapsed(first_press) == first_press

\* The clock moves on by dt seconds.
Later(t, dt) ==
  IF t = None THEN None
  ELSE IF unwrap(t) + dt > CTRL_C_EXIT_TIMEOUT THEN Some(CTRL_C_EXIT_TIMEOUT)
  ELSE Some(unwrap(t) + dt)

NoMessage == [kind |-> "none", text |-> <<>>]

Message(kind, text) == [kind |-> kind, text |-> text]

CtrlCWarning == Message("info", <<"Press Ctrl+C again to exit">>)

\* ------------------------------------------------- App (from the specification)

\* App::new: Normal mode, the freshly parsed diff of `count` files, an empty
\* session.
AppNew(count) ==
  [ input_mode |-> "Normal",
    focused_panel |-> "Diff",
    should_quit |-> FALSE,
    message |-> NoMessage,
    dirty |-> FALSE,
    command_buffer |-> <<>>,
    comment_buffer |-> <<>>,
    comment_cursor |-> 0,
    comments |-> {},
    reviewed |-> {},
    file_count |-> count,
    current_file |-> 0,
    pending_confirm |-> "None" ]

set_message(a, text) == [a EXCEPT !.message = Message("info", text)]

set_error(a, text) == [a EXCEPT !.message = Message("error", text)]

set_warning(a, text) == [a EXCEPT !.message = Message("warning", text)]

\* The path of the file under the cursor (files are numbered 1 .. file_count
\* in diff order), or None when the diff is empty.
path_at_cursor(a) == IF a.current_file < a.file_count THEN a.current_file + 1 ELSE NoPath

get_line_at_cursor(a) == path_at_cursor(a)

has_comments(a) == a.comments # {}

enter_command_mode(a) == [a EXCEPT !.input_mode = "Command", !.command_buffer = <<>>]

exit_command_mode(a) == [a EXCEPT !.input_mode = "Normal", !.command_buffer = <<>>]

enter_comment_mode(a) ==
  [a EXCEPT !.input_mode = "Comment", !.comment_buffer = <<>>, !.comment_cursor = 0]

\* Cancel: the draft is discarded, the Comment Store is not touched.
exit_comment_mode(a) ==
  [a EXCEPT !.input_mode = "Normal", !.comment_buffer = <<>>, !.comment_cursor = 0]

\* Commit the draft to the Comment Store at the cursor's anchor.
save_comment(a) ==
  IF path_at_cursor(a) = NoPath THEN exit_comment_mode(a)
  ELSE [a EXCEPT !.comments = @ \cup {path_at_cursor(a)},
                 !.dirty = TRUE,
                 !.input_mode = "Normal",
                 !.comment_buffer = <<>>,
                 !.comment_cursor = 0]

\* delete_comment_at_cursor() -> bool: the App after the call and the result.
delete_comment_at_cursor(a) ==
  IF path_at_cursor(a) \in a.comments
  THEN [ app |-> [a EXCEPT !.comments = @ \ {path_at_cursor(a)},
                           !.dirty = TRUE,
                           !.message = Message("info", <<"Comment deleted">>)],
         found |-> TRUE ]
  ELSE [app |-> a, found |-> FALSE]

enter_confirm_mode(a, action) ==
  [a EXCEPT !.input_mode = "Confirm", !.pending_confirm = action]

exit_confirm_mode(a) == [a EXCEPT !.input_mode = "Normal", !.pending_confirm = "None"]

\* toggle_reviewed: flips the reviewed flag of the file under the cursor.
toggle_reviewed(a) ==
  IF path_at_cursor(a) = NoPath THEN a
  ELSE [a EXCEPT !.reviewed = IF path_at_cursor(a) \in @ THEN @ \ {path_at_cursor(a)}
                               ELSE @ \cup {path_at_cursor(a)},
                 !.dirty = TRUE]

toggle_help(a) ==
  [a EXCEPT !.input_mode = IF @ = "Help" THEN "Normal" ELSE "Help"]

\* toggle_file_list shows or hides a panel and center_cursor moves the viewport:
\* both change the layout only, which the model does not hold.
toggle_file_list(a) == a

center_cursor(a) == a

file_count(a) == a.file_count

\* Saturating at the last file; an empty diff keeps index 0.
jump_to_file(a, index) ==
  IF index < a.file_count THEN [a EXCEPT !.current_file = index] ELSE a

next_file(a) ==
  IF a.current_file + 1 < a.file_count THEN [a EXCEPT !.current_file = @ + 1] ELSE a

prev_file(a) ==
  IF a.current_file > 0 THEN [a EXCEPT !.current_file = @ - 1] ELSE a

\* reload_diff_files: the diff is replaced by one of `count` files, comments
\* and reviewed flags are merged by path, the cursor is clamped again; dirty is
\* left alone.
reload_diff_files(a, count) ==
  [a EXCEPT !.file_count = count,
            !.comments = {p \in @ : p <= count},
            !.reviewed = {p \in @ : p <= count},
            !.current_file = IF @ < count THEN @ ELSE IF count = 0 THEN 0 ELSE count - 1]

enter_commit_select_mode(a) == [a EXCEPT !.input_mode = "CommitSelect"]

exit_commit_select_mode(a) == [a EXCEPT !.input_mode = "Normal"]

\* ------------------------------------ input::map_key_to_action (from the specification)

Act(type) == [type |-> type, c |-> ""]

InsertChar(c) == [type |-> "InsertChar", c |-> c]

\* The same key maps to different Actions depending on the mode.
map_key_to_action(key, mode) ==
  CASE mode = "Normal" ->
         CASE key = "z" -> Act("PendingZCommand")
           [] key = "d" -> Act("PendingDCommand")
           [] key = ";" -> Act("PendingSemicolonCommand")
           [] key = ":" -> Act("EnterCommandMode")
           [] key = "c" -> Act("AddLineComment")
           [] key = "?" -> Act("ToggleHelp")
           [] key = "/" -> Act("EnterSearchMode")
           [] key = "v" -> Act("EnterVisualMode")
           [] key = "o" -> Act("EnterCommitSelectMode")
           [] key = "}" -> Act("NextFile")
           [] key = "{" -> Act("PrevFile")
           [] key = "g" -> Act("GoToTop")
           [] key = "G" -> Act("GoToBottom")
           [] key = "y" -> Act("ExportToClipboard")
           [] key = "Tab" -> Act("ToggleFocus")
           [] key = "r" -> Act("ToggleReviewed")
           [] OTHER -> Act("None")
    [] mode = "Command" ->
         CASE key \in CharKeys \cup CommandLetters \cup WideChars -> InsertChar(key)
           [] key = "Enter" -> Act("SubmitInput")
           [] key = "Esc" -> Act("ExitMode")
           [] key = "Backspace" -> Act("DeleteChar")
           [] OTHER -> Act("None")
    [] mode = "Comment" ->
         CASE key \in CharKeys \cup CommandLetters \cup WideChars -> InsertChar(key)
           [] key = "Enter" -> Act("SubmitInput")
           [] key = "Esc" -> Act("ExitMode")
           [] key = "Backspace" -> Act("DeleteChar")
           [] key = "Left" -> Act("TextCursorLeft")
           [] key = "Right" -> Act("TextCursorRight")
           [] key = "CtrlW" -> Act("DeleteWord")
           [] key = "CtrlU" -> Act("ClearLine")
           [] key = "Tab" -> Act("CycleCommentType")
           [] OTHER -> Act("None")
    [] mode = "Confirm" ->
         CASE key \in {"y", "Enter"} -> Act("ConfirmYes")
           [] key \in {"n", "Esc"} -> Act("ConfirmNo")
           [] OTHER -> Act("None")
    [] mode = "Help" ->
         CASE key \in {"?", "Esc", "q"} -> Act("ToggleHelp")
           [] OTHER -> Act("None")
    [] mode \in {"Search", "VisualSelect", "CommitSelect"} ->
         CASE key = "Esc" -> Act("ExitMode")
           [] OTHER -> Act("None")

\* ---------------------------------------------------- String (comment and command buffers)

RECURSIVE trim_start(_)
trim_start(s) ==
  IF s # <<>> /\ is_whitespace(Head(s)) THEN trim_start(Tail(s)) ELSE s

RECURSIVE trim_end(_)
trim_end(s) ==
  IF s # <<>> /\ is_whitespace(s[Len(s)]) THEN trim_end(SubSeq(s, 1, Len(s) - 1)) ELSE s

\* str::trim
trim(s) == trim_end(trim_start(s))

\* A String is kept as the sequence of its characters; its indices count bytes
\* of the UTF-8 encoding, from 0.
\* String::len: the length in bytes
RECURSIVE len(_)
len(s) == IF s = <<>> THEN 0 ELSE len_utf8(Head(s)) + len(Tail(s))

\* str::is_char_boundary(idx)
is_char_boundary(s, idx) == \E k \in 0 .. Len(s) : len(SubSeq(s, 1, k)) = idx

\* The number of characters before the char boundary idx.
chars_before(s, idx) == CHOOSE k \in 0 .. Len(s) : len(SubSeq(s, 1, k)) = idx

\* str::chars().nth(n): n counts characters
nth(s, n) == IF n < Len(s) THEN Some(s[n + 1]) ELSE None

\* String::insert(idx, c) panics unless idx is on a char boundary.
insert_panics(s, idx) == ~is_char_boundary(s, idx)

\* String::insert(idx, c)
insert(s, idx, c) ==
  LET k == chars_before(s, idx) IN SubSeq(s, 1, k) \o <<c>> \o SubSeq(s, k + 1, Len(s))

\* String::remove(idx) panics unless idx is the byte offset of a character.
remove_panics(s, idx) == ~is_char_boundary(s, idx) \/ idx >= len(s)

\* String::remove(idx): the whole character at idx goes
remove(s, idx) ==
  LET k == chars_before(s, idx) IN SubSeq(s, 1, k) \o SubSeq(s, k + 2, Len(s))

\* String::pop
pop(s) == IF s = <<>> THEN s ELSE SubSeq(s, 1, Len(s) - 1)

\* What an arm leaves behind: the App, whether it ended in `continue`, and
\* whether it panicked.
Done(a) == [app |-> a, cont |-> FALSE, panic |-> FALSE]

Continue(a) == [app |-> a, cont |-> TRUE, panic |-> FALSE]

Panic(a) == [app |-> a, cont |-> FALSE, panic |-> TRUE]

\* `comment_cursor -= 1; comment_buffer.remove(comment_cursor)`
remove_before_cursor(a) ==
  [a EXCEPT !.comment_cursor = @ - 1,
            !.comment_buffer = remove(@, a.comment_cursor - 1)]

\* The first loop of DeleteWord: whitespace before the cursor.
RECURSIVE delete_whitespace_back(_)
delete_whitespace_back(a) ==
  IF a.comment_cursor > 0
     /\ nth(a.comment_buffer, a.comment_cursor - 1) # None
     /\ is_whitespace(unwrap(nth(a.comment_buffer, a.comment_cursor - 1)))
  THEN IF remove_panics(a.comment_buffer, a.comment_cursor - 1)
       THEN Panic([a EXCEPT !.comment_cursor = @ - 1])
       ELSE delete_whitespace_back(remove_before_cursor(a))
  ELSE Done(a)

\* The second loop of DeleteWord: the word before the cursor.
RECURSIVE delete_word_back(_)
delete_word_back(a) ==
  IF a.comment_cursor > 0
     /\ nth(a.comment_buffer, a.comment_cursor - 1) # None
     /\ ~is_whitespace(unwrap(nth(a.comment_buffer, a.comment_cursor - 1)))
  THEN IF remove_panics(a.comment_buffer, a.comment_cursor - 1)
       THEN Panic([a EXCEPT !.comment_cursor = @ - 1])
       ELSE delete_word_back(remove_before_cursor(a))
  ELSE Done(a)

\* Action::DeleteWord in Comment mode with the cursor past the start
DeleteWord(a) ==
  LET r == delete_whitespace_back(a) IN
  IF r.panic THEN r ELSE delete_word_back(r.app)

\* ------------------------------------------------------------ the Action arms

\* export_to_clipboard whose failure is reported as an error.
export_to_clipboard_error(a, env) ==
  IF env.export_ok THEN set_message(a, <<"Copied review to clipboard">>)
  ELSE set_error(a, <<"Clipboard unavailable">>)

\* export_to_clipboard(&app.session, &app.diff_source), and the message set.
export_to_clipboard(a, env) ==
  IF env.export_ok THEN set_message(a, <<"Copied review to clipboard">>)
  ELSE set_warning(a, <<"Clipboard unavailable">>)

\* SubmitCommand with the has_comments test of "x" | "wq" lost: it always quits.
SubmitCommand_noprompt(a, env) ==
  LET cmd == trim(a.command_buffer) IN
  IF cmd \in {<<"x">>, <<"w", "q">>}
  THEN IF env.save_ok
       THEN Done(exit_command_mode([a EXCEPT !.dirty = FALSE, !.should_quit = TRUE]))
       ELSE Done(exit_command_mode(set_error(a, <<"Save failed: ", "e">>)))
  ELSE Done(exit_command_mode(set_message(a, <<"Unknown command: ">> \o cmd)))

\* "q" | "quit" that saves before it quits.
QuitArm_save(a, env) ==
  IF env.save_ok THEN Done([a EXCEPT !.dirty = FALSE, !.should_quit = TRUE])
  ELSE Done(set_error(a, <<"Save failed: ", "e">>))

\* "q" | "quit" => app.should_quit = true
QuitArm(a, env) == Done([a EXCEPT !.should_quit = TRUE])

\* "w" | "write" that clears dirty before it knows the save's result.
WriteArm_clean(a, env) ==
  IF env.save_ok
  THEN Done(set_message([a EXCEPT !.dirty = FALSE], <<"Saved to ", "path">>))
  ELSE Done(set_error([a EXCEPT !.dirty = FALSE], <<"Save failed: ", "e">>))

\* "w" | "write" => match save_session(&app.session)
WriteArm(a, env) ==
  IF env.save_ok
  THEN Done(set_message([a EXCEPT !.dirty = FALSE], <<"Saved to ", "path">>))
  ELSE Done(set_error(a, <<"Save failed: ", "e">>))

\* "x" | "wq" => match save_session(&app.session)
WriteQuitArm(a, env) ==
  IF env.save_ok
  THEN IF has_comments(a)
       THEN Continue(enter_confirm_mode(
              exit_command_mode([a EXCEPT !.dirty = FALSE]), "CopyAndQuit"))
       ELSE Done([a EXCEPT !.dirty = FALSE, !.should_quit = TRUE])
  ELSE Done(set_error(a, <<"Save failed: ", "e">>))

\* "e" | "reload" that takes a reload for a save.
ReloadArm_clean(a, env) ==
  IF env.reload # ReloadErr
  THEN Done(set_message([reload_diff_files(a, env.reload) EXCEPT !.dirty = FALSE],
                        <<"Reloaded ", ToString(env.reload), " files">>))
  ELSE Done(set_error(a, <<"Reload failed: ", "e">>))

\* "e" | "reload" => match app.reload_diff_files()
ReloadArm(a, env) ==
  IF env.reload # ReloadErr
  THEN Done(set_message(reload_diff_files(a, env.reload),
                        <<"Reloaded ", ToString(env.reload), " files">>))
  ELSE Done(set_error(a, <<"Reload failed: ", "e">>))

\* "clip" | "export"
ExportArm(a, env) == Done(export_to_clipboard(a, env))

\* The fallback arm without its message.
UnknownArm_silent(a, cmd) == Done(a)

\* _ => app.set_message(format!("Unknown command: {}", cmd))
UnknownArm(a, cmd) == Done(set_message(a, <<"Unknown command: ">> \o cmd))

\* Submit that leaves Command mode only where the command succeeded.
LeaveCommandMode_onsuccess(r) ==
  IF r.cont \/ r.app.message.kind = "error" THEN r ELSE Done(exit_command_mode(r.app))

\* `app.exit_command_mode()` after the match, which the `continue` of "x" | "wq"
\* does not reach (that arm has left Command mode itself).
LeaveCommandMode(r) == IF r.cont THEN r ELSE Done(exit_command_mode(r.app))

\* Action::SubmitInput in Command mode: the command vocabulary.
SubmitCommand(a, env) ==
  LET cmd == trim(a.command_buffer) IN
  LeaveCommandMode(
    CASE cmd \in {<<"q">>, <<"q", "u", "i", "t">>} -> QuitArm(a, env)
      [] cmd \in {<<"w">>, <<"w", "r", "i", "t", "e">>} -> WriteArm(a, env)
      [] cmd \in {<<"x">>, <<"w", "q">>} -> WriteQuitArm(a, env)
      [] cmd \in {<<"e">>, <<"r", "e", "l", "o", "a", "d">>} -> ReloadArm(a, env)
      [] cmd \in {<<"c", "l", "i", "p">>, <<"e", "x", "p", "o", "r", "t">>} ->
           ExportArm(a, env)
      [] OTHER -> UnknownArm(a, cmd))

\* Action::ConfirmYes
ConfirmYes(a, env) ==
  IF a.input_mode = "Confirm"
  THEN LET a1 == IF a.pending_confirm = "CopyAndQuit"
                 THEN export_to_clipboard(a, env) ELSE a
       IN [exit_confirm_mode(a1) EXCEPT !.should_quit = TRUE]
  ELSE a

\* ConfirmNo that declines the quit as well as the export.
ConfirmNo_stay(a) ==
  IF a.input_mode = "Confirm" THEN exit_confirm_mode(a) ELSE a

\* Action::ConfirmNo
ConfirmNo(a) ==
  IF a.input_mode = "Confirm"
  THEN [exit_confirm_mode(a) EXCEPT !.should_quit = TRUE]
  ELSE a

\* Action::ExitMode
ExitMode(a, env) ==
  CASE a.input_mode = "Command" -> exit_command_mode(a)
    [] a.input_mode = "Comment" -> exit_comment_mode(a)
    [] a.input_mode = "CommitSelect" ->
         IF env.commits_ok THEN exit_commit_select_mode(a)
         ELSE set_error(exit_commit_select_mode(a),
                        <<"Failed to reload working tree: ", "e">>)
    [] OTHER -> a

\* usize::saturating_sub
saturating_sub(n, m) == IF n < m THEN 0 ELSE n - m

\* GoToBottom that takes the file count for the last index.
GoToBottom_count(a) == jump_to_file(a, file_count(a))

\* Action::GoToBottom
GoToBottom(a) == jump_to_file(a, saturating_sub(file_count(a), 1))

\* The arms of the Action match.
ApplyAction(a, action, env) ==
  CASE action.type = "GoToTop" -> Done(jump_to_file(a, 0))
    [] action.type = "GoToBottom" -> Done(GoToBottom(a))
    [] action.type = "NextFile" -> Done(next_file(a))
    [] action.type = "PrevFile" -> Done(prev_file(a))
    [] action.type = "ToggleReviewed" -> Done(toggle_reviewed(a))
    [] action.type = "ToggleFocus" ->
         Done([a EXCEPT !.focused_panel = IF @ = "FileList" THEN "Diff" ELSE "FileList"])
    [] action.type = "ToggleHelp" -> Done(toggle_help(a))
    [] action.type = "EnterCommandMode" -> Done(enter_command_mode(a))
    [] action.type = "EnterCommitSelectMode" ->
         IF env.commits_ok THEN Done(enter_commit_select_mode(a))
         ELSE Done(set_error(a, <<"Failed to load commits: ", "e">>))
    [] action.type = "ExitMode" -> Done(ExitMode(a, env))
    [] action.type = "AddLineComment" ->
         IF get_line_at_cursor(a) # NoPath THEN Done(enter_comment_mode(a))
         ELSE Done(set_message(a, <<"Move cursor to a diff line to add a line comment">>))
    [] action.type = "InsertChar" ->
         IF a.input_mode = "Command"
         THEN Done([a EXCEPT !.command_buffer = Append(@, action.c)])
         ELSE IF a.input_mode = "Comment"
         THEN IF insert_panics(a.comment_buffer, a.comment_cursor) THEN Panic(a)
              ELSE Done([a EXCEPT !.comment_buffer = insert(@, a.comment_cursor, action.c),
                                  !.comment_cursor = @ + 1])
         ELSE Done(a)
    [] action.type = "DeleteChar" ->
         IF a.input_mode = "Command"
         THEN Done([a EXCEPT !.command_buffer = pop(@)])
         ELSE IF a.input_mode = "Comment" /\ a.comment_cursor > 0
         THEN IF remove_panics(a.comment_buffer, a.comment_cursor - 1)
              THEN Panic([a EXCEPT !.comment_cursor = @ - 1])
              ELSE Done(remove_before_cursor(a))
         ELSE Done(a)
    [] action.type = "TextCursorLeft" ->
         IF a.comment_cursor > 0 THEN Done([a EXCEPT !.comment_cursor = @ - 1])
         ELSE Done(a)
    [] action.type = "TextCursorRight" ->
         IF a.comment_cursor < len(a.comment_buffer)
         THEN Done([a EXCEPT !.comment_cursor = @ + 1])
         ELSE Done(a)
    [] action.type = "DeleteWord" ->
         IF a.input_mode = "Comment" /\ a.comment_cursor > 0
         THEN DeleteWord(a)
         ELSE Done(a)
    [] action.type = "ClearLine" ->
         IF a.input_mode = "Comment"
         THEN Done([a EXCEPT !.comment_buffer = <<>>, !.comment_cursor = 0])
         ELSE Done(a)
    [] action.type = "SubmitInput" ->
         IF a.input_mode = "Command" THEN SubmitCommand(a, env)
         ELSE IF a.input_mode = "Comment" THEN Done(save_comment(a))
         ELSE Done(a)
    [] action.type = "ConfirmYes" -> Done(ConfirmYes(a, env))
    [] action.type = "ConfirmNo" -> Done(ConfirmNo(a))
    [] action.type = "ExportToClipboard" -> Done(export_to_clipboard(a, env))
    [] OTHER -> Done(a)

\* What the Search and VisualSelect handlers add to the arms above
\* (from the specification: the modes are entered from Normal and left by Escape).
ModeArms(a, action) ==
  CASE action.type = "EnterSearchMode" -> [a EXCEPT !.input_mode = "Search"]
    [] action.type = "EnterVisualMode" -> [a EXCEPT !.input_mode = "VisualSelect"]
    [] action.type = "ExitMode" /\ a.input_mode \in {"Search", "VisualSelect"} ->
         [a EXCEPT !.input_mode = "Normal"]
    [] OTHER -> a

\* HandlerFor that does not look at the focused panel.
HandlerFor_nopanel(a) ==
  CASE a.input_mode = "Help" -> "handle_help_action"
    [] a.input_mode = "Command" -> "handle_command_action"
    [] a.input_mode = "Search" -> "handle_search_action"
    [] a.input_mode = "Comment" -> "handle_comment_action"
    [] a.input_mode = "Confirm" -> "handle_confirm_action"
    [] a.input_mode = "CommitSelect" -> "handle_commit_select_action"
    [] a.input_mode = "VisualSelect" -> "handle_visual_action"
    [] a.input_mode = "Normal" -> "handle_diff_action"

\* `match app.input_mode { ... }`: the handler the Action goes to.
HandlerFor(a) ==
  CASE a.input_mode = "Help" -> "handle_help_action"
    [] a.input_mode = "Command" -> "handle_command_action"
    [] a.input_mode = "Search" -> "handle_search_action"
    [] a.input_mode = "Comment" -> "handle_comment_action"
    [] a.input_mode = "Confirm" -> "handle_confirm_action"
    [] a.input_mode = "CommitSelect" -> "handle_commit_select_action"
    [] a.input_mode = "VisualSelect" -> "handle_visual_action"
    [] a.input_mode = "Normal" ->
         IF a.focused_panel = "FileList" THEN "handle_file_list_action"
         ELSE "handle_diff_action"

\* Dispatch by input mode.
Dispatch(a, action, env) ==
  IF action.type \in {"EnterSearchMode", "EnterVisualMode"}
     \/ (action.type = "ExitMode" /\ a.input_mode \in {"Search", "VisualSelect"})
  THEN Done(ModeArms(a, action))
  ELSE ApplyAction(a, action, env)

\* ------------------------------------------------------------ one key press

\* The loop's locals and the App, with `cont`: the iteration ended in `continue`,
\* and handled_by: the handlers the iteration's Action was passed to.
Loop(a, pz, pd, ps, pcc) ==
  [ app |-> a, pending_z |-> pz, pending_d |-> pd, pending_semicolon |-> ps,
    pending_ctrl_c |-> pcc, cont |-> FALSE, handled_by |-> {}, panic |-> FALSE ]

\* HandleCtrlC with `<=` for `<` in the timeout test.
HandleCtrlC_le(L) ==
  LET a == IF L.app.input_mode = "Comment" THEN exit_comment_mode(L.app) ELSE L.app IN
  IF L.pending_ctrl_c # None /\ elapsed(unwrap(L.pending_ctrl_c)) <= CTRL_C_EXIT_TIMEOUT
  THEN [L EXCEPT !.app = [a EXCEPT !.should_quit = TRUE], !.cont = TRUE]
  ELSE [L EXCEPT !.app = set_message(a, <<"Press Ctrl+C again to exit">>),
                 !.pending_ctrl_c = Some(Instant_now),
                 !.cont = TRUE]

\* HandleCtrlC without the cancelling of the comment draft.
HandleCtrlC_nocancel(L) ==
  IF L.pending_ctrl_c # None /\ elapsed(unwrap(L.pending_ctrl_c)) < CTRL_C_EXIT_TIMEOUT
  THEN [L EXCEPT !.app = [L.app EXCEPT !.should_quit = TRUE], !.cont = TRUE]
  ELSE [L EXCEPT !.app = set_message(L.app, <<"Press Ctrl+C again to exit">>),
                 !.pending_ctrl_c = Some(Instant_now),
                 !.cont = TRUE]

\* HandleCtrlC that gives up the pending leaders.
HandleCtrlC_clearleaders(L) ==
  LET a == IF L.app.input_mode = "Comment" THEN exit_comment_mode(L.app) ELSE L.app
      U == [L EXCEPT !.pending_z = FALSE, !.pending_d = FALSE, !.pending_semicolon = FALSE]
  IN
  IF L.pending_ctrl_c # None /\ elapsed(unwrap(L.pending_ctrl_c)) < CTRL_C_EXIT_TIMEOUT
  THEN [U EXCEPT !.app = [a EXCEPT !.should_quit = TRUE], !.cont = TRUE]
  ELSE [U EXCEPT !.app = set_message(a, <<"Press Ctrl+C again to exit">>),
                 !.pending_ctrl_c = Some(Instant_now),
                 !.cont = TRUE]

\* Handle Ctrl+C twice to exit (works across all input modes).
HandleCtrlC(L) ==
  LET a == IF L.app.input_mode = "Comment" THEN exit_comment_mode(L.app) ELSE L.app IN
  IF L.pending_ctrl_c # None /\ elapsed(unwrap(L.pending_ctrl_c)) < CTRL_C_EXIT_TIMEOUT
  THEN [L EXCEPT !.app = [a EXCEPT !.should_quit = TRUE], !.cont = TRUE]
  ELSE [L EXCEPT !.app = set_message(a, <<"Press Ctrl+C again to exit">>),
                 !.pending_ctrl_c = Some(Instant_now),
                 !.cont = TRUE]

\* ClearPendingCtrlC left out.
ClearPendingCtrlC_keep(L) == L

\* Any other key clears the pending Ctrl+C state and message.
ClearPendingCtrlC(L) ==
  IF L.pending_ctrl_c # None
  THEN [L EXCEPT !.pending_ctrl_c = None, !.app = [L.app EXCEPT !.message = NoMessage]]
  ELSE L

\* HandlePendingZ that swallows the key after z whatever it is.
HandlePendingZ_swallow(L, key) ==
  IF L.pending_z
  THEN IF key = "z"
       THEN [L EXCEPT !.pending_z = FALSE, !.app = center_cursor(L.app), !.cont = TRUE]
       ELSE [L EXCEPT !.pending_z = FALSE, !.cont = TRUE]
  ELSE L

\* Handle pending z command for zz centering.
HandlePendingZ(L, key) ==
  IF L.pending_z
  THEN IF key = "z"
       THEN [L EXCEPT !.pending_z = FALSE, !.app = center_cursor(L.app), !.cont = TRUE]
       ELSE [L EXCEPT !.pending_z = FALSE]
  ELSE L

\* HandlePendingD that clears pending_d only when the second d comes.
HandlePendingD_sticky(L, key) ==
  IF L.pending_d /\ key = "d"
  THEN LET r == delete_comment_at_cursor(L.app) IN
       [L EXCEPT !.pending_d = FALSE,
                 !.app = IF r.found THEN r.app
                         ELSE set_message(r.app, <<"No comment at cursor">>),
                 !.cont = TRUE]
  ELSE L

\* HandlePendingD without the `continue` after the delete.
HandlePendingD_fallthrough(L, key) ==
  IF L.pending_d
  THEN IF key = "d"
       THEN LET r == delete_comment_at_cursor(L.app) IN
            [L EXCEPT !.pending_d = FALSE,
                      !.app = IF r.found THEN r.app
                              ELSE set_message(r.app, <<"No comment at cursor">>)]
       ELSE [L EXCEPT !.pending_d = FALSE]
  ELSE L

\* Handle pending d command for dd delete comment.
HandlePendingD(L, key) ==
  IF L.pending_d
  THEN IF key = "d"
       THEN LET r == delete_comment_at_cursor(L.app) IN
            [L EXCEPT !.pending_d = FALSE,
                      !.app = IF r.found THEN r.app
                              ELSE set_message(r.app, <<"No comment at cursor">>),
                      !.cont = TRUE]
       ELSE [L EXCEPT !.pending_d = FALSE]
  ELSE L

\* HandlePendingSemicolon that clears pending_semicolon only on a follow-up key.
HandlePendingSemicolon_sticky(L, key) ==
  IF L.pending_semicolon
  THEN CASE key = "e" ->
              [L EXCEPT !.pending_semicolon = FALSE, !.app = toggle_file_list(L.app),
                        !.cont = TRUE]
         [] key = "h" ->
              [L EXCEPT !.pending_semicolon = FALSE,
                        !.app = [L.app EXCEPT !.focused_panel = "FileList"],
                        !.cont = TRUE]
         [] key = "l" ->
              [L EXCEPT !.pending_semicolon = FALSE,
                        !.app = [L.app EXCEPT !.focused_panel = "Diff"],
                        !.cont = TRUE]
         [] OTHER -> L
  ELSE L

\* Handle pending ; command for ;e toggle file list, ;h/;l panel focus.
HandlePendingSemicolon(L, key) ==
  IF L.pending_semicolon
  THEN CASE key = "e" ->
              [L EXCEPT !.pending_semicolon = FALSE, !.app = toggle_file_list(L.app),
                        !.cont = TRUE]
         [] key = "h" ->
              [L EXCEPT !.pending_semicolon = FALSE,
                        !.app = [L.app EXCEPT !.focused_panel = "FileList"],
                        !.cont = TRUE]
         [] key = "l" ->
              [L EXCEPT !.pending_semicolon = FALSE,
                        !.app = [L.app EXCEPT !.focused_panel = "Diff"],
                        !.cont = TRUE]
         [] OTHER -> [L EXCEPT !.pending_semicolon = FALSE]
  ELSE L

\* Handle pending command setters (these work in any mode).
ArmLeader(L, action) ==
  CASE action.type = "PendingZCommand" -> [L EXCEPT !.pending_z = TRUE, !.cont = TRUE]
    [] action.type = "PendingDCommand" -> [L EXCEPT !.pending_d = TRUE, !.cont = TRUE]
    [] action.type = "PendingSemicolonCommand" ->
         [L EXCEPT !.pending_semicolon = TRUE, !.cont = TRUE]
    [] OTHER -> L

\* map_key_to_action, the leader arming, then the dispatch by input mode.
MapAndDispatch(L, key, env) ==
  LET action == map_key_to_action(key, L.app.input_mode)
      La == ArmLeader(L, action)
  IN IF La.cont THEN La
     ELSE LET r == Dispatch(La.app, action, env) IN
          [La EXCEPT !.app = r.app, !.cont = r.cont, !.panic = r.panic,
                     !.handled_by = {HandlerFor(La.app)}]

\* The pending leaders in turn, each either consuming the key or falling through.
HandlePendingLeaders(L, key, env) ==
  LET Lz == HandlePendingZ(L, key) IN
  IF Lz.cont THEN Lz
  ELSE LET Ld == HandlePendingD(Lz, key) IN
       IF Ld.cont THEN Ld
       ELSE LET Ls == HandlePendingSemicolon(Ld, key) IN
            IF Ls.cont THEN Ls
            ELSE MapAndDispatch(Ls, key, env)

\* Event::Key(key) if key.kind == KeyEventKind::Press
HandleKeyPress(L, key, env) ==
  IF key = "CtrlC" THEN HandleCtrlC(L)
  ELSE HandlePendingLeaders(ClearPendingCtrlC(L), key, env)

\* Event::Mouse: a left click focuses the panel under the pointer in Normal
\* mode; a scroll goes to a handler and moves the viewport only.
MouseKinds == {"DownLeft", "ScrollUp", "ScrollDown"}

MouseOver == {"file_list", "diff", "neither"}

HandleMouse(L, kind, over) ==
  IF kind = "DownLeft" /\ L.app.input_mode = "Normal" /\ over # "neither"
  THEN [L EXCEPT !.app = [L.app EXCEPT !.focused_panel =
                            IF over = "file_list" THEN "FileList" ELSE "Diff"]]
  ELSE L

\* ExpirePendingCtrlC without the elapsed() test.
ExpirePendingCtrlC_always(L) ==
  IF L.pending_ctrl_c # None
  THEN [L EXCEPT !.pending_ctrl_c = None, !.app = [L.app EXCEPT !.message = NoMessage]]
  ELSE L

\* Auto-clear expired pending Ctrl+C state and message.
ExpirePendingCtrlC(L) ==
  IF L.pending_ctrl_c # None /\ elapsed(unwrap(L.pending_ctrl_c)) >= CTRL_C_EXIT_TIMEOUT
  THEN [L EXCEPT !.pending_ctrl_c = None, !.app = [L.app EXCEPT !.message = NoMessage]]
  ELSE L

\* The wait inside event::poll: the clock moves on by dt.
Wait(L, dt) == [L EXCEPT !.pending_ctrl_c = Later(@, dt)]

\* The head of an iteration: render, the expiry check, then poll for dt.
LoopHead(dt) ==
  Wait(ExpirePendingCtrlC(
         Loop(app, pending_z, pending_d, pending_semicolon, pending_ctrl_c)), dt)

\* `if app.should_quit { break; }`, which `continue` does not reach; a panic
\* in a handler unwinds out of the loop.
StillRunning(L) == ~L.panic /\ (L.cont \/ ~L.app.should_quit)

\* ------------------------------------------------------------ the loop

\* The environment types a command of CommandTexts and drafts of at most MaxBuf.
Typed(key) ==
  CASE app.input_mode = "Command" /\ key \in CharKeys ->
         CommandPrefix(Append(app.command_buffer, key))
    [] app.input_mode = "Comment" /\ key \in CharKeys ->
         key \in CommentChars /\ Len(app.comment_buffer) < MaxBuf
    [] OTHER -> TRUE

\* The answers the handling of `key` can depend on: the save, export and reload
\* results after Submit in Command mode, the export result where a key exports,
\* the commit listing where a key enters or leaves CommitSelect.
EnvsFor(key) ==
  CASE key = "Enter" /\ app.input_mode = "Command" ->
         {e \in Envs : e.commits_ok}
    [] (key \in {"Enter", "y"} /\ app.input_mode = "Confirm")
       \/ (key = "y" /\ app.input_mode = "Normal") ->
         {e \in Envs : e.save_ok /\ e.reload = ReloadErr /\ e.commits_ok}
    [] (key = "o" /\ app.input_mode = "Normal")
       \/ (key = "Esc" /\ app.input_mode = "CommitSelect") ->
         {e \in Envs : e.save_ok /\ e.export_ok /\ e.reload = ReloadErr}
    [] OTHER -> {DefaultEnv}

\* How long event::poll waits, in whole seconds: under a second, which may
\* still take the clock over a second's boundary. Where no Instant is held
\* that is short of the timeout, the wait changes nothing.
Waits ==
  IF pending_ctrl_c = None /\ Later(since_ctrl_c, 1) = since_ctrl_c THEN {0} ELSE {0, 1}

NoPress ==
  [key |-> "none", gap |-> None, after_disarm |-> FALSE, armed |-> FALSE,
   quit_before |-> FALSE]

Store(L) ==
  /\ app' = L.app
  /\ pending_z' = L.pending_z
  /\ pending_d' = L.pending_d
  /\ pending_semicolon' = L.pending_semicolon
  /\ pending_ctrl_c' = L.pending_ctrl_c
  /\ running' = StillRunning(L)
  /\ panicked' = L.panic

Init ==
  /\ \E n \in 1 .. MaxFiles : app = AppNew(n)
  /\ pending_z = FALSE
  /\ pending_d = FALSE
  /\ pending_semicolon = FALSE
  /\ pending_ctrl_c = None
  /\ running = TRUE
  /\ panicked = FALSE
  /\ read_after_quit = FALSE
  /\ last_press = NoPress
  /\ since_ctrl_c = None

\* An iteration whose poll, after dt, returns the press of `key`.
KeyIteration(key, dt, env) ==
  /\ running
  /\ Typed(key)
  /\ Store(HandleKeyPress(LoopHead(dt), key, env))
  /\ read_after_quit' = (read_after_quit \/ app.should_quit)

\* An iteration whose poll, after dt, returns a mouse event.
MouseIteration(kind, over, dt) ==
  /\ running
  /\ Store(HandleMouse(LoopHead(dt), kind, over))
  /\ read_after_quit' = (read_after_quit \/ app.should_quit)

\* An iteration whose poll times out after dt (or returns an event the loop
\* ignores).
IdleIteration(dt) ==
  /\ running
  /\ Store(LoopHead(dt))
  /\ UNCHANGED read_after_quit

KeyPress ==
  /\ \E key \in Keys, dt \in Waits : \E env \in EnvsFor(key) : KeyIteration(key, dt, env)
  /\ UNCHANGED <<last_press, since_ctrl_c>>

MouseEvent ==
  /\ \E kind \in MouseKinds, over \in MouseOver, dt \in Waits : MouseIteration(kind, over, dt)
  /\ UNCHANGED <<last_press, since_ctrl_c>>

PollTimeout ==
  /\ \E dt \in Waits : IdleIteration(dt)
  /\ UNCHANGED <<last_press, since_ctrl_c>>

Next == KeyPress \/ MouseEvent \/ PollTimeout

Spec == Init /\ [][Next]_vars

\* ------------------------------------------- the loop, with the key presses recorded

\* What is kept of the last key press. Of a Ctrl+C: the time since the key
\* press before it if that was a Ctrl+C too (gap), whether the key press before
\* it was another key that found the countdown armed (after_disarm), and
\* should_quit as it was when the key was read (quit_before). Of another key:
\* whether it found the countdown armed.
Pressed(key, dt) ==
  IF key = "CtrlC"
  THEN [ key |-> "CtrlC",
         gap |-> Later(since_ctrl_c, dt),
         after_disarm |-> last_press.key = "other" /\ last_press.armed,
         armed |-> FALSE,
         quit_before |-> app.should_quit ]
  ELSE [ key |-> "other",
         gap |-> None,
         after_disarm |-> FALSE,
         armed |-> LoopHead(dt).pending_ctrl_c # None,
         quit_before |-> FALSE ]

\* The keys of the runs that record their key presses.
RecordedKeys ==
  {"CtrlC", "z", "d", ";", "e", ":", "q", "w", "Enter", "Esc", "c", "b", "?", "/", "v",
   "o", "y", "n"}

KeyPressRecorded ==
  \E key \in RecordedKeys, dt \in Waits : \E env \in EnvsFor(key) :
    /\ KeyIteration(key, dt, env)
    /\ last_press' = Pressed(key, dt)
    /\ since_ctrl_c' = IF key = "CtrlC" THEN Some(Instant_now) ELSE None

MouseEventRecorded ==
  \E kind \in MouseKinds, over \in MouseOver, dt \in Waits :
    /\ MouseIteration(kind, over, dt)
    /\ since_ctrl_c' = Later(since_ctrl_c, dt)
    /\ UNCHANGED last_press

PollTimeoutRecorded ==
  \E dt \in Waits :
    /\ IdleIteration(dt)
    /\ since_ctrl_c' = Later(since_ctrl_c, dt)
    /\ UNCHANGED last_press

NextKeys == KeyPressRecorded \/ MouseEventRecorded \/ PollTimeoutRecorded

SpecKeys == Init /\ [][NextKeys]_vars

\* ------------------------------------------- the loop, with whole commands typed

\* The keys of the runs that type the command lines of CommandLines: their
\* characters (c also opens a comment draft, r toggles the reviewed flag, y
\* exports, y and n answer the prompt) and the keys that enter, submit, edit
\* and leave.
CommandKeys ==
  UNION {{t[i] : i \in 1 .. Len(t)} : t \in CommandLines} \cup {":", "Enter", "Esc", "Backspace", "y", "n"}

\* The environment types a prefix of a command line, submits whole command
\* lines only, and drafts comments of at most MaxBuf.
TypedLine(key) ==
  CASE app.input_mode = "Command" /\ key \in CharKeys \cup CommandLetters ->
         \E t \in CommandLines : IsPrefix(Append(app.command_buffer, key), t)
    [] app.input_mode = "Command" /\ key = "Enter" ->
         app.command_buffer \in CommandLines
    [] app.input_mode = "Comment" /\ key \in CharKeys \cup CommandLetters ->
         key \in CommentChars /\ Len(app.comment_buffer) < MaxBuf
    [] OTHER -> TRUE

\* An iteration whose poll returns at once the press of `key`.
CommandKeyIteration(key, env) ==
  /\ running
  /\ TypedLine(key)
  /\ Store(HandleKeyPress(LoopHead(0), key, env))
  /\ read_after_quit' = (read_after_quit \/ app.should_quit)

KeyPressCommands ==
  /\ \E key \in CommandKeys : \E env \in EnvsFor(key) : CommandKeyIteration(key, env)
  /\ UNCHANGED <<last_press, since_ctrl_c>>

NextCommands == KeyPressCommands \/ PollTimeout

SpecCommands == Init /\ [][NextCommands]_vars

\* ------------------------------------------- the loop, with a comment drafted

\* The characters typed into the draft of the runs of SpecComment.
DraftChars == CommentChars \cup WideChars

\* The keys of the runs that edit a comment draft: c opens the draft, the
\* characters of DraftChars, and the keys that edit, submit and cancel.
DraftKeys ==
  DraftChars \cup {"c", "Enter", "Esc", "Backspace", "Left", "Right", "CtrlW", "CtrlU"}

\* The environment drafts comments of at most MaxDraft characters.
TypedDraft(key) ==
  app.input_mode = "Comment" /\ key \in CharKeys \cup WideChars
    => key \in DraftChars /\ Len(app.comment_buffer) < MaxDraft

\* An iteration whose poll returns at once the press of `key`.
DraftKeyIteration(key) ==
  /\ running
  /\ TypedDraft(key)
  /\ Store(HandleKeyPress(LoopHead(0), key, DefaultEnv))
  /\ read_after_quit' = (read_after_quit \/ app.should_quit)

KeyPressDraft ==
  /\ \E key \in DraftKeys : DraftKeyIteration(key)
  /\ UNCHANGED <<last_press, since_ctrl_c>>

NextComment == KeyPressDraft \/ PollTimeout

SpecComment == Init /\ [][NextComment]_vars

\* ------------------------------------------------------------ the claims

\* The result of an iteration that reads the press of `key` after waiting dt.
Pressing(key, dt, env) == HandleKeyPress(LoopHead(dt), key, env)

\* C1: once two Ctrl+C presses have followed each other with no other key
\* press between them, the second less than CTRL_C_EXIT_TIMEOUT after the
\* first, should_quit is true, whatever the input mode.
C1_DoubleCtrlCQuits ==
  (last_press.key = "CtrlC" /\ last_press.gap # None
   /\ unwrap(last_press.gap) < CTRL_C_EXIT_TIMEOUT)
    => app.should_quit

\* The second Ctrl+C came a second after the first, in Search mode.
C1_Witness ==
  /\ last_press.key = "CtrlC"
  /\ last_press.gap = Some(1)
  /\ ~last_press.quit_before
  /\ app.input_mode = "Search"
  /\ app.should_quit

\* C2: a Ctrl+C press that follows a Ctrl+C press by at least the timeout is a
\* first press again: should_quit stays false, the countdown runs from the
\* new press and the warning shows (until that countdown expires in turn).
C2_LateCtrlCRearms ==
  (last_press.key = "CtrlC" /\ last_press.gap # None
   /\ unwrap(last_press.gap) >= CTRL_C_EXIT_TIMEOUT)
    => /\ ~app.should_quit
       /\ running
       /\ \/ pending_ctrl_c = since_ctrl_c /\ app.message = CtrlCWarning
          \/ pending_ctrl_c = None /\ since_ctrl_c = Some(CTRL_C_EXIT_TIMEOUT)

\* The late second press has just been handled.
C2_Witness ==
  /\ last_press.key = "CtrlC"
  /\ last_press.gap = Some(CTRL_C_EXIT_TIMEOUT)
  /\ pending_ctrl_c = Some(Instant_now)
  /\ app.message = CtrlCWarning
  /\ ~app.should_quit

\* C3: after a key press other than Ctrl+C the countdown is disarmed and the
\* warning gone, and a Ctrl+C press that does not directly follow a Ctrl+C
\* press leaves should_quit as it was.
C3_OtherKeyDisarms ==
  /\ last_press.key = "other" =>
       pending_ctrl_c = None /\ app.message # CtrlCWarning
  /\ (last_press.key = "CtrlC" /\ last_press.gap = None) =>
       app.should_quit = last_press.quit_before

\* Ctrl+C, another key while the countdown ran, Ctrl+C at once: no quit.
C3_Witness ==
  /\ last_press.key = "CtrlC"
  /\ last_press.after_disarm
  /\ pending_ctrl_c = Some(Instant_now)
  /\ ~app.should_quit

\* C4: once should_quit is set by the second Ctrl+C, the loop ends without
\* reading another key or mouse event.
C4_QuitExitsAtOnce == ~read_after_quit

\* C5: a Ctrl+C press in Comment mode cancels the draft (the mode is left, the
\* Comment Store is as before), arms the countdown, does not set should_quit,
\* and ends the iteration before any handler sees the key.
C5_CtrlCCancelsComment ==
  (running /\ app.input_mode = "Comment") =>
    \A dt \in Waits :
      LET r == Pressing("CtrlC", dt, DefaultEnv) IN
      /\ r.app.input_mode = "Normal"
      /\ r.app.comments = app.comments
      /\ r.app.comment_buffer = <<>>
      /\ r.pending_ctrl_c = Some(Instant_now)
      /\ r.app.message = CtrlCWarning
      /\ ~r.app.should_quit
      /\ r.cont

\* A draft is being typed over a store that holds a comment, and Ctrl+C
\* cancels it.
C5_Witness ==
  /\ running
  /\ app.input_mode = "Comment"
  /\ app.comment_buffer # <<>>
  /\ app.comments # {}
  /\ Pressing("CtrlC", 0, DefaultEnv).app.input_mode = "Normal"
  /\ Pressing("CtrlC", 0, DefaultEnv).app.comments = app.comments

\* The answers that matter to the handling of `key`, for the claims that
\* range over the keys.
AnswersFor(key) == IF key \in {"Enter", "y", "Esc", "o"} THEN Envs ELSE {DefaultEnv}

\* C6 as stated: with pending_d armed, any key other than d clears pending_d
\* and deletes no comment.
C6_AnyOtherKeyCancels ==
  (running /\ pending_d) =>
    \A key \in Keys \ {"d"}, dt \in Waits :
      Typed(key) =>
        \A env \in AnswersFor(key) :
          LET r == Pressing(key, dt, env) IN
          ~r.pending_d /\ app.comments \subseteq r.app.comments

\* C6, amended: with pending_d armed, any key other than d and other than
\* Ctrl+C clears pending_d and deletes no comment; Ctrl+C deletes no comment
\* either and leaves pending_d armed.
C6_OtherKeyCancels ==
  (running /\ pending_d) =>
    \A key \in Keys \ {"d"}, dt \in Waits :
      Typed(key) =>
        \A env \in AnswersFor(key) :
          LET r == Pressing(key, dt, env) IN
          /\ r.pending_d = (key = "CtrlC")
          /\ app.comments \subseteq r.app.comments

\* d is armed over a comment, and the key after it enters Command mode.
C6_Witness ==
  /\ running
  /\ pending_d
  /\ path_at_cursor(app) \in app.comments
  /\ ~Pressing(":", 0, DefaultEnv).pending_d
  /\ Pressing(":", 0, DefaultEnv).app.comments = app.comments

\* C7: with pending_d armed, d removes the comment under the cursor and no
\* other and reports it, or, with none there, leaves the store alone and sets
\* "No comment at cursor"; either way the key is consumed: pending_d is not
\* armed again and the iteration ends before the dispatch.
C7_DoubleDDeletes ==
  (running /\ pending_d) =>
    \A dt \in Waits :
      LET r == Pressing("d", dt, DefaultEnv)
          p == path_at_cursor(app)
      IN /\ p \in app.comments =>
              /\ r.app.comments = app.comments \ {p}
              /\ r.app.message = Message("info", <<"Comment deleted">>)
         /\ p \notin app.comments =>
              /\ r.app.comments = app.comments
              /\ r.app.message = Message("info", <<"No comment at cursor">>)
         /\ ~r.pending_d
         /\ r.cont
         /\ r.app.input_mode = app.input_mode

\* One of two comments has been deleted by dd.
C7_Witness ==
  /\ app.message = Message("info", <<"Comment deleted">>)
  /\ app.comments # {}
  /\ path_at_cursor(app) \notin app.comments
  /\ ~pending_d

Armed == pending_z \/ pending_d \/ pending_semicolon

FollowUp(key) ==
  \/ pending_z /\ key = "z"
  \/ pending_d /\ key = "d"
  \/ pending_semicolon /\ key \in {"e", "h", "l"}

Unarmed(L) ==
  [L EXCEPT !.pending_z = FALSE, !.pending_d = FALSE, !.pending_semicolon = FALSE]

\* The key, dt later, leaves what it would have left with no leader armed.
FallsThrough(key, dt, env) ==
  HandleKeyPress(LoopHead(dt), key, env) = HandleKeyPress(Unarmed(LoopHead(dt)), key, env)

\* C8 as stated: with a leader armed, any key that is not one of its follow-ups
\* clears the pending flag and is handled as from the same state with no leader
\* armed.
C8_AnyKeyFallsThrough ==
  (running /\ Armed) =>
    \A key \in Keys, dt \in Waits :
      (Typed(key) /\ ~FollowUp(key)) =>
        \A env \in AnswersFor(key) : FallsThrough(key, dt, env)

\* C8, amended: the same of any key but Ctrl+C, which is consumed before the
\* leaders are looked at and leaves the leader armed.
C8_KeyFallsThrough ==
  (running /\ Armed) =>
    \A key \in Keys, dt \in Waits :
      (Typed(key) /\ ~FollowUp(key)) =>
        \A env \in AnswersFor(key) :
          IF key = "CtrlC"
          THEN /\ Pressing(key, dt, env).pending_z = pending_z
               /\ Pressing(key, dt, env).pending_d = pending_d
               /\ Pressing(key, dt, env).pending_semicolon = pending_semicolon
          ELSE FallsThrough(key, dt, env)

\* z is armed, and the key after it enters Command mode.
C8_Witness ==
  /\ running
  /\ pending_z
  /\ Pressing(":", 0, DefaultEnv).app.input_mode = "Command"
  /\ ~Pressing(":", 0, DefaultEnv).pending_z

\* C9: in Confirm mode ConfirmYes and ConfirmNo both set should_quit and leave
\* the mode, and the loop ends; they differ by the export alone, whose failure
\* changes nothing else; outside Confirm mode neither changes anything.
C9_ConfirmQuits ==
  running =>
    \A env \in Envs :
      IF app.input_mode = "Confirm"
      THEN /\ \A key \in {"y", "Enter", "n", "Esc"}, dt \in Waits :
                LET r == Pressing(key, dt, env) IN
                /\ r.app.should_quit
                /\ r.app.input_mode = "Normal"
                /\ ~StillRunning(r)
           /\ [ConfirmYes(app, env) EXCEPT !.message = app.message] = ConfirmNo(app)
           /\ ConfirmYes(app, env).message =
                IF app.pending_confirm = "CopyAndQuit"
                THEN export_to_clipboard(app, env).message ELSE app.message
      ELSE /\ Dispatch(app, Act("ConfirmYes"), env) = Done(app)
           /\ Dispatch(app, Act("ConfirmNo"), env) = Done(app)

\* The loop has ended on a ConfirmYes whose export failed.
C9_Witness ==
  /\ ~running
  /\ app.should_quit
  /\ app.input_mode = "Normal"
  /\ app.pending_confirm = "None"
  /\ app.message = Message("warning", <<"Clipboard unavailable">>)
  /\ ~app.dirty
  /\ app.comments # {}

IsWriteQuit(a) == trim(a.command_buffer) \in {<<"x">>, <<"w", "q">>}

\* C10: Submit of "wq" or "x" whose save succeeds clears dirty and then, with
\* no comment, sets should_quit and ends the loop with no prompt, or, with a
\* comment, enters Confirm mode with CopyAndQuit pending and leaves
\* should_quit alone; in Confirm mode only a confirm answer or Ctrl+C changes
\* should_quit.
C10_WriteQuit ==
  /\ (running /\ app.input_mode = "Command" /\ IsWriteQuit(app)) =>
       \A dt \in Waits, env \in {e \in Envs : e.save_ok} :
         LET r == Pressing("Enter", dt, env) IN
         /\ ~r.app.dirty
         /\ IF has_comments(app)
            THEN /\ r.app.input_mode = "Confirm"
                 /\ r.app.pending_confirm = "CopyAndQuit"
                 /\ r.app.should_quit = app.should_quit
                 /\ StillRunning(r)
            ELSE /\ r.app.should_quit
                 /\ r.app.input_mode = "Normal"
                 /\ r.app.pending_confirm = "None"
                 /\ ~StillRunning(r)
  /\ (running /\ app.input_mode = "Confirm") =>
       /\ \A key \in Keys \ {"y", "Enter", "n", "Esc", "CtrlC"}, dt \in Waits :
            Pressing(key, dt, DefaultEnv).app.should_quit = app.should_quit
       /\ \A kind \in MouseKinds, over \in MouseOver, dt \in Waits :
            HandleMouse(LoopHead(dt), kind, over).app.should_quit = app.should_quit

\* The prompt is up after a write-quit over a session with comments.
C10_Witness ==
  /\ running
  /\ app.input_mode = "Confirm"
  /\ app.pending_confirm = "CopyAndQuit"
  /\ ~app.dirty
  /\ ~app.should_quit
  /\ has_comments(app)

\* The result of Submit (Enter) read at once, the collaborators answering env.
Submitting(env) == Pressing("Enter", 0, env)

InCommandMode == running /\ app.input_mode = "Command"

Cmd == trim(app.command_buffer)

IsQuit == Cmd \in {<<"q">>, <<"q", "u", "i", "t">>}

IsWrite == Cmd \in {<<"w">>, <<"w", "r", "i", "t", "e">>}

IsReload == Cmd \in {<<"e">>, <<"r", "e", "l", "o", "a", "d">>}

IsExport == Cmd \in {<<"c", "l", "i", "p">>, <<"e", "x", "p", "o", "r", "t">>}

IsUnknown == ~(IsQuit \/ IsWrite \/ IsWriteQuit(app) \/ IsReload \/ IsExport)

\* What a command must not touch unless it is a reload: the Comment Store,
\* the reviewed flags, the files and the cursor.
SameReview(a, b) ==
  /\ a.comments = b.comments
  /\ a.reviewed = b.reviewed
  /\ a.file_count = b.file_count
  /\ a.current_file = b.current_file

\* C11 as stated: Submit in Command mode leaves the input mode Normal, whatever
\* the command and whatever its outcome.
C11_SubmitReturnsToNormal ==
  InCommandMode => \A env \in Envs : Submitting(env).app.input_mode = "Normal"

\* C11, amended: Submit in Command mode leaves the input mode Normal, whatever
\* the command and its outcome, but for a write-quit whose save succeeds over a
\* session with a comment, which leaves it Confirm; the command buffer is
\* empty afterwards in every case.
C11_SubmitLeavesCommandMode ==
  InCommandMode =>
    \A env \in Envs :
      /\ Submitting(env).app.input_mode =
           IF IsWriteQuit(app) /\ env.save_ok /\ has_comments(app)
           THEN "Confirm" ELSE "Normal"
      /\ Submitting(env).app.command_buffer = <<>>

\* A reload that failed has left Command mode for Normal.
C11_Witness ==
  /\ running
  /\ app.input_mode = "Normal"
  /\ app.message = Message("error", <<"Reload failed: ", "e">>)
  /\ app.command_buffer = <<>>

\* C12: Submit of "q" or "quit", whitespace around it trimmed, sets should_quit
\* and ends the loop; nothing is saved (the result does not depend on what a
\* save would answer, dirty and the message stay) and no prompt comes up,
\* dirty or not, comments or not.
C12_QuitNoSave ==
  (InCommandMode /\ IsQuit) =>
    \A env \in Envs :
      LET r == Submitting(env) IN
      /\ r.app.should_quit
      /\ ~StillRunning(r)
      /\ r.app.dirty = app.dirty
      /\ r.app.message = app.message
      /\ r.app.input_mode = "Normal"
      /\ r.app.pending_confirm = "None"
      /\ SameReview(r.app, app)

\* The loop has ended on a quit over unsaved comments.
C12_Witness ==
  /\ ~running
  /\ app.should_quit
  /\ app.dirty
  /\ has_comments(app)
  /\ app.pending_confirm = "None"

\* What C13 says of an unrecognized command, but for the message.
UnknownLeavesAll(r) ==
  /\ r.app.should_quit = app.should_quit
  /\ r.app.dirty = app.dirty
  /\ SameReview(r.app, app)
  /\ r.app.message.kind = "info"

\* C13 as stated: Submit of an unrecognized command changes neither
\* should_quit, dirty, the Comment Store, the reviewed flags nor the files, and
\* sets the message "unknown command: " followed by the trimmed buffer.
C13_UnknownCommandLower ==
  (InCommandMode /\ IsUnknown) =>
    \A env \in Envs :
      /\ UnknownLeavesAll(Submitting(env))
      /\ Submitting(env).app.message.text = <<"unknown command: ">> \o Cmd

\* C13, amended: the same, with the message "Unknown command: " followed by
\* the trimmed buffer.
C13_UnknownCommand ==
  (InCommandMode /\ IsUnknown) =>
    \A env \in Envs :
      /\ UnknownLeavesAll(Submitting(env))
      /\ Submitting(env).app.message.text = <<"Unknown command: ">> \o Cmd

\* "bogus" was submitted over unsaved comments, and the loop goes on.
C13_Witness ==
  /\ running
  /\ app.input_mode = "Normal"
  /\ app.message = Message("info", <<"Unknown command: ", "b", "o", "g", "u", "s">>)
  /\ app.dirty
  /\ has_comments(app)

\* C14: when the save fails, Submit of a write or a write-quit sets an error
\* message, leaves dirty and should_quit as they were, and leaves the mode
\* Normal with no prompt pending.
C14_SaveFailure ==
  (InCommandMode /\ (IsWrite \/ IsWriteQuit(app))) =>
    \A env \in {e \in Envs : ~e.save_ok} :
      LET r == Submitting(env) IN
      /\ r.app.message = Message("error", <<"Save failed: ", "e">>)
      /\ r.app.dirty = app.dirty
      /\ r.app.should_quit = app.should_quit
      /\ r.app.input_mode = "Normal"
      /\ r.app.pending_confirm = "None"
      /\ SameReview(r.app, app)

\* A save has failed over unsaved comments: still dirty, still running.
C14_Witness ==
  /\ running
  /\ app.message = Message("error", <<"Save failed: ", "e">>)
  /\ app.dirty
  /\ has_comments(app)
  /\ app.input_mode = "Normal"
  /\ ~app.should_quit

\* C15: a key press clears dirty only if it is the Submit of a write or a
\* write-quit whose save succeeds; reload, export, quit and unrecognized
\* commands leave dirty as it was.
C15_OnlySaveClearsDirty ==
  (running /\ app.dirty) =>
    /\ \A key \in CommandKeys :
         \A env \in AnswersFor(key) :
           ~Pressing(key, 0, env).app.dirty =>
             /\ key = "Enter"
             /\ app.input_mode = "Command"
             /\ IsWrite \/ IsWriteQuit(app)
             /\ env.save_ok
    /\ (app.input_mode = "Command" /\ (IsReload \/ IsExport \/ IsQuit \/ IsUnknown)) =>
         \A env \in Envs : Submitting(env).app.dirty

\* A reload has succeeded and the session is still dirty.
C15_Witness ==
  /\ running
  /\ app.dirty
  /\ app.message = Message("info", <<"Reloaded ", "1", " files">>)
  /\ app.input_mode = "Normal"

\* With the export failing or not.
ExportFails(env) == [env EXCEPT !.export_ok = FALSE]

ExportWorks(env) == [env EXCEPT !.export_ok = TRUE]

\* The key exports: the export command, the export key, or ConfirmYes.
Exports(key) ==
  \/ app.input_mode = "Command" /\ key = "Enter" /\ IsExport
  \/ app.input_mode = "Normal" /\ key = "y"
  \/ app.input_mode = "Confirm" /\ key \in {"y", "Enter"}
       /\ app.pending_confirm = "CopyAndQuit"

\* C16: an export that fails sets a warning and nothing else: the Comment
\* Store, the reviewed flags, dirty and the cursor are as before, and but for
\* the message the iteration ends as it does when the export succeeds
\* (should_quit set on the ConfirmYes path alone).
C16_ExportFailure ==
  running =>
    \A key \in {"Enter", "y"}, env \in Envs :
      Exports(key) =>
        LET bad == Pressing(key, 0, ExportFails(env))
            good == Pressing(key, 0, ExportWorks(env))
        IN /\ bad.app.message = Message("warning", <<"Clipboard unavailable">>)
           /\ SameReview(bad.app, app)
           /\ bad.app.dirty = app.dirty
           /\ [bad EXCEPT !.app.message = good.app.message] = good
           /\ bad.app.should_quit = (app.should_quit \/ app.input_mode = "Confirm")
           /\ StillRunning(bad) = ~bad.app.should_quit

\* An export has failed over unsaved comments, and the loop goes on.
C16_Witness ==
  /\ running
  /\ app.message = Message("warning", <<"Clipboard unavailable">>)
  /\ app.dirty
  /\ has_comments(app)
  /\ app.reviewed # {}
  /\ ~app.should_quit

\* The handler of each mode but Normal, and of each panel in Normal mode.
ModeHandlers ==
  { <<"Help", "handle_help_action">>, <<"Command", "handle_command_action">>,
    <<"Search", "handle_search_action">>, <<"Comment", "handle_comment_action">>,
    <<"Confirm", "handle_confirm_action">>,
    <<"CommitSelect", "handle_commit_select_action">>,
    <<"VisualSelect", "handle_visual_action">> }

PanelHandlers ==
  { <<"FileList", "handle_file_list_action">>, <<"Diff", "handle_diff_action">> }

Handlers == {p[2] : p \in ModeHandlers \cup PanelHandlers}

LeaderActions == {"PendingZCommand", "PendingDCommand", "PendingSemicolonCommand"}

\* C17: the Action of a key press that no pending leader consumed and that
\* arms no leader is passed to exactly one handler, the one of the input mode
\* or, in Normal mode, of the focused panel; a key that is consumed or arms a
\* leader, and Ctrl+C, is passed to none.
C17_OneHandler ==
  running =>
    \A key \in Keys, dt \in Waits :
      Typed(key) =>
        \A by \in {Pressing(key, dt, DefaultEnv).handled_by} :
          IF \/ key = "CtrlC"
             \/ FollowUp(key)
             \/ map_key_to_action(key, app.input_mode).type \in LeaderActions
          THEN by = {}
          ELSE /\ Cardinality(by) = 1
               /\ by = {h \in Handlers :
                          \/ <<app.input_mode, h>> \in ModeHandlers
                          \/ /\ app.input_mode = "Normal"
                             /\ <<app.focused_panel, h>> \in PanelHandlers}

\* In Normal mode with the file list focused, a key goes to the file-list
\* handler.
C17_Witness ==
  /\ running
  /\ app.input_mode = "Normal"
  /\ app.focused_panel = "FileList"
  /\ Pressing("}", 0, DefaultEnv).handled_by = {"handle_file_list_action"}

\* The index of the last file, or 0 where there is none.
LastIndex(count) == IF count = 0 THEN 0 ELSE count - 1

Min(m, n) == IF m < n THEN m ELSE n

\* The cursor is on a file, or on index 0 of an empty diff, and what is read
\* at the cursor is a file of the diff or nothing.
ValidCursor(a) ==
  /\ a.current_file \in 0 .. LastIndex(a.file_count)
  /\ path_at_cursor(a) \in {NoPath} \cup (1 .. a.file_count)

HeadAfter(L, dt) ==
  Wait(ExpirePendingCtrlC([L EXCEPT !.cont = FALSE, !.handled_by = {}]), dt)

\* What a leader's action can change.
LeaderEffect(a) ==
  <<a.comments, a.dirty, a.focused_panel, a.current_file, a.input_mode, a.reviewed>>

\* C19: with a leader armed, Ctrl+C leaves the three pending flags as they are,
\* and so do a poll that times out and a mouse event, however long the wait;
\* the follow-up key after the Ctrl+C does what it does without the Ctrl+C.
C19_LeaderSurvivesCtrlC ==
  (running /\ Armed) =>
    \A dt \in {0, 1} :
      LET c == Pressing("CtrlC", dt, DefaultEnv) IN
      /\ c.pending_z = pending_z
      /\ c.pending_d = pending_d
      /\ c.pending_semicolon = pending_semicolon
      /\ LoopHead(dt).pending_z = pending_z
      /\ LoopHead(dt).pending_d = pending_d
      /\ LoopHead(dt).pending_semicolon = pending_semicolon
      /\ \A kind \in MouseKinds, over \in MouseOver :
           /\ HandleMouse(LoopHead(dt), kind, over).pending_z = pending_z
           /\ HandleMouse(LoopHead(dt), kind, over).pending_d = pending_d
           /\ HandleMouse(LoopHead(dt), kind, over).pending_semicolon = pending_semicolon
      /\ \A key \in {"z", "d", "e", "h", "l"}, dt2 \in {0, 1} :
           FollowUp(key) =>
             LET after == HandleKeyPress(HeadAfter(c, dt2), key, DefaultEnv)
                 direct == Pressing(key, dt, DefaultEnv)
             IN /\ LeaderEffect(after.app) = LeaderEffect(direct.app)
                /\ after.cont
                /\ ~after.pending_z /\ ~after.pending_d /\ ~after.pending_semicolon
                /\ key = "d" => after.app.message = direct.app.message

\* d, then Ctrl+C, over a comment: pending_d is still armed and the d to come
\* deletes the comment.
C19_Witness ==
  /\ running
  /\ pending_d
  /\ pending_ctrl_c # None
  /\ path_at_cursor(app) \in app.comments
  /\ Pressing("d", 0, DefaultEnv).app.comments = app.comments \ {path_at_cursor(app)}

\* The leaders a loop state has armed.
ArmedIn(L) ==
  {f \in {"z", "d", ";"} :
     \/ f = "z" /\ L.pending_z
     \/ f = "d" /\ L.pending_d
     \/ f = ";" /\ L.pending_semicolon}

\* C20: at most one of pending_z, pending_d and pending_semicolon is true, and
\* a key press other than Ctrl+C leaves armed at most the leader it is itself,
\* whatever was armed before.
C20_OneLeader ==
  /\ Cardinality(ArmedIn(Loop(app, pending_z, pending_d, pending_semicolon, pending_ctrl_c))) <= 1
  /\ running =>
       \A key \in Keys \ {"CtrlC"}, dt \in Waits :
         Typed(key) =>
           \A armed \in {ArmedIn(Pressing(key, dt, DefaultEnv))} :
             /\ armed \subseteq {key}
             /\ FollowUp(key) => armed = {}

\* z is armed and d replaces it.
C20_Witness ==
  /\ running
  /\ pending_z
  /\ ArmedIn(Pressing("d", 0, DefaultEnv)) = {"d"}

\* The draft before and after the press of `key` in Comment mode.
Editing(key) == Pressing(key, 0, DefaultEnv)

Drafting == running /\ app.input_mode = "Comment"

\* The characters of s before the byte offset idx, and those from it on.
Before(s, idx) == SubSeq(s, 1, chars_before(s, idx))

After(s, idx) == SubSeq(s, chars_before(s, idx) + 1, Len(s))

\* C21: whatever has been typed into the draft, no editing action has
\* panicked, the cursor lies between 0 and the length of the buffer and on a
\* position at which the buffer can be edited (a char boundary); there,
\* InsertChar(c) puts c at the cursor without a panic and moves the cursor to
\* just behind c, and DeleteChar at cursor 0 changes nothing.
C21_CursorEditable ==
  /\ ~panicked
  /\ 0 <= app.comment_cursor
  /\ app.comment_cursor <= len(app.comment_buffer)
  /\ is_char_boundary(app.comment_buffer, app.comment_cursor)
  /\ Drafting /\ is_char_boundary(app.comment_buffer, app.comment_cursor) =>
       /\ \A c \in DraftChars :
            /\ ~Editing(c).panic
            /\ Editing(c).app.comment_buffer =
                 Before(app.comment_buffer, app.comment_cursor) \o <<c>>
                   \o After(app.comment_buffer, app.comment_cursor)
            /\ Editing(c).app.comment_cursor = app.comment_cursor + len_utf8(c)
       /\ app.comment_cursor = 0 =>
            /\ ~Editing("Backspace").panic
            /\ Editing("Backspace").app = app

\* The number of characters of s before the maximal run, ending at the k-th,
\* of whitespace characters (ws) or of other characters (~ws).
RECURSIVE run_start(_, _, _)
run_start(s, k, ws) ==
  IF k > 0 /\ is_whitespace(s[k]) = ws THEN run_start(s, k - 1, ws) ELSE k

\* Where the span that DeleteWord is to remove starts: before the whitespace
\* that ends at the k-th character and the word before that.
span_start(s, k) == run_start(s, run_start(s, k, TRUE), FALSE)

\* C22: in Comment mode with the cursor past the start (and on a character
\* boundary), DeleteWord removes exactly the whitespace run before the cursor
\* and the word before that, keeps the text from the cursor on, and puts the
\* cursor at the start of the removed span; with the cursor at 0, or outside
\* Comment mode, it changes nothing.
C22_DeleteWord ==
  /\ Drafting /\ app.comment_cursor > 0
       /\ is_char_boundary(app.comment_buffer, app.comment_cursor) =>
       LET s == app.comment_buffer
           k == chars_before(s, app.comment_cursor)
           j == span_start(s, k)
       IN /\ ~Editing("CtrlW").panic
          /\ Editing("CtrlW").app =
               [app EXCEPT !.comment_buffer = SubSeq(s, 1, j) \o SubSeq(s, k + 1, Len(s)),
                           !.comment_cursor = len(SubSeq(s, 1, j))]
  /\ Drafting /\ app.comment_cursor = 0 =>
       ~Editing("CtrlW").panic /\ Editing("CtrlW").app = app
  /\ running /\ app.input_mode # "Comment" =>
       ApplyAction(app, Act("DeleteWord"), DefaultEnv) = Done(app)

\* The mode has just become Confirm.
EntersConfirm == app.input_mode # "Confirm" /\ app'.input_mode = "Confirm"

\* C23: the mode becomes Confirm only in a step that submits "x" or "wq" in
\* Command mode with at least one comment in the session, and the state it
\* leads to has dirty = false (the save succeeded), the pending confirm action
\* CopyAndQuit, the command buffer emptied and should_quit = false.
C23_ConfirmEntry ==
  [][EntersConfirm =>
       /\ app.input_mode = "Command"
       /\ IsWriteQuit(app)
       /\ has_comments(app)
       /\ app'.dirty = FALSE
       /\ app'.pending_confirm = "CopyAndQuit"
       /\ app'.command_buffer = <<>>
       /\ app'.should_quit = FALSE]_vars

====
